---- MODULE Spec2Model ----
(***************************************************************************)
(* KubeSecBank auth-service: token issuance, validation, revocation,       *)
(* sessions, login-attempt lockout (handlers/auth.go, repository/auth.go)  *)
(* and the JWTAuth / RateLimiter middleware (middleware/auth.go).          *)
(*                                                                         *)
(* Time is an integer clock `now`; one unit is the resolution of the       *)
(* iat/exp claims.  Several requests may be served at one clock value.     *)
(* A signed token string is a deterministic function of its claims and of  *)
(* the secret (HS256 over the JSON of the claim map), so a token is        *)
(* modelled by its claims plus the algorithm and the signature status.     *)
(* Row ids come from generateID (16 random bytes) and never collide; they  *)
(* carry no behaviour and are modelled by the position in the attempt log. *)
(***************************************************************************)
EXTENDS Integers, Sequences, FiniteSets, TLC

\* ------------------------------------------------------------------------
\* Bounds of the model
\* ------------------------------------------------------------------------
MaxTime == 2
MaxTimeRL == 3
MaxReqs == 3
MaxReqsOK == 4
MaxReqsIdP == 6
NumProcs == 2
NumKeys == 1
MaxReqsTx == 3
MaxReqsRF == 3
MaxReqsLC == 6
MaxReqsRL == 4

\* ------------------------------------------------------------------------
\* Configuration and program constants (durations in clock units)
\* ------------------------------------------------------------------------
JWTExpiry == 1
RefreshExpiry == 2
LockoutWindow == 1
LockoutThreshold == 5
limit == 2
window == 2

Emails == {"a"}
Procs == 1..NumProcs
Keys == 1..NumKeys

VARIABLES now, nreq, sessions, attempts, blacklist, cache,
          issued, last, created, blWrites, loggedOut, terminal, returned,
          requests, mu, pc, ip, rnow, valid, admitted, rejected, lastRL,
          rpc, rtok, remail, minted

vars == <<now, nreq, sessions, attempts, blacklist, cache,
          issued, last, created, blWrites, loggedOut, terminal, returned,
          requests, mu, pc, ip, rnow, valid, admitted, rejected, lastRL,
          rpc, rtok, remail, minted>>

authVars == <<nreq, sessions, attempts, blacklist, cache,
              issued, last, created, blWrites, loggedOut, terminal, returned>>
rlVars == <<requests, mu, pc, ip, rnow, valid, admitted, rejected, lastRL>>
rfVars == <<rpc, rtok, remail, minted>>

\* ------------------------------------------------------------------------
\* Tokens
\* ------------------------------------------------------------------------
UserID(email) == CASE email = "a" -> "user-a"
                   [] email = "b" -> "user-b"
                   [] OTHER -> "user-"

NoToken == [user_id |-> "", email |-> "", typ |-> "", iat |-> 0, exp |-> 0,
            alg |-> "", sig |-> ""]

SignedString(user_id, email, typ, iat, exp) ==
    [user_id |-> user_id, email |-> email, typ |-> typ, iat |-> iat,
     exp |-> exp, alg |-> "HS256", sig |-> "ok"]

\* what a client can do to a token without the secret
Tamper(t) == [t EXCEPT !.sig = "bad"]
AlgNone(t) == [t EXCEPT !.alg = "none", !.sig = ""]

\* variant: a parser that also takes the unsigned algorithm "none"
ParseOKAnyAlg(t, at) ==
    /\ (t.alg = "none" \/ (t.alg = "HS256" /\ t.sig = "ok"))
    /\ at < t.exp

\* jwt.Parse with the HMAC-only key function: err == nil && token.Valid
ParseOK(t, at) == /\ t.alg = "HS256"
                  /\ t.sig = "ok"
                  /\ at < t.exp

issueTokens(user_id, email, at) ==
    [access  |-> SignedString(user_id, email, "access", at, at + JWTExpiry),
     refresh |-> SignedString(user_id, email, "refresh", at, at + RefreshExpiry)]

\* ------------------------------------------------------------------------
\* Repository: sessions and login attempts (PostgreSQL)
\* ------------------------------------------------------------------------
NotFound == [user_id |-> "", token |-> NoToken, expires_at |-> 0, created_at |-> 0]

\* sessions.token is declared UNIQUE: an INSERT of a token that is already
\* in the table (live or expired) fails
UniqueViolation(rows, s) == \E r \in rows : r.token = s.token

\* variant: an INSERT that reports success without storing the row
CreateSessionDropped(rows, s) == rows

CreateSession(rows, s) == rows \cup {s}

\* variant: the query without the expires_at > NOW() predicate
GetSessionByTokenNoExpiry(rows, token, at) ==
    IF \E r \in rows : r.token = token
    THEN CHOOSE r \in rows : r.token = token
    ELSE NotFound

GetSessionByToken(rows, token, at) ==
    IF \E r \in rows : r.token = token /\ r.expires_at > at
    THEN CHOOSE r \in rows : r.token = token /\ r.expires_at > at
    ELSE NotFound

\* variant: DELETE ... WHERE user_id = (the user of the token)
DeleteSessionOfUser(rows, token) == {r \in rows : r.user_id # token.user_id}

DeleteSession(rows, token) == {r \in rows : r.token # token}

RecordLoginAttempt(log, attempt) == Append(log, attempt)

GetRecentFailedAttempts(log, email, since) ==
    Cardinality({i \in DOMAIN log : /\ log[i].email = email
                                    /\ log[i].success = FALSE
                                    /\ log[i].created_at > since})

\* ------------------------------------------------------------------------
\* Repository: blacklist and session cache (Redis keys with an expiry)
\* ------------------------------------------------------------------------
EmptyStore == [t \in {} |-> 0]

\* SET key value EX expiry: creates or overwrites the key and its expiry
RedisSet(store, key, val, expiry, at) ==
    [k \in DOMAIN store \cup {key} |->
        IF k = key THEN [val |-> val, until |-> at + expiry] ELSE store[k]]

RedisExists(store, key, at) == key \in DOMAIN store /\ at < store[key].until

RedisDel(store, key) == [k \in DOMAIN store \ {key} |-> store[k]]

\* keys whose expiry has passed are gone
RedisExpire(store, at) == [k \in {x \in DOMAIN store : at < store[x].until} |-> store[k]]

BlacklistToken(store, token, expiry, at) == RedisSet(store, token, "1", expiry, at)

IsTokenBlacklisted(store, token, at) == RedisExists(store, token, at)

CacheSession(store, token, session, expiry, at) ==
    RedisSet(store, token, session.user_id, expiry, at)

CacheMiss == [token |-> NoToken, user_id |-> ""]

GetCachedSession(store, token, at) ==
    IF RedisExists(store, token, at)
    THEN [token |-> token, user_id |-> store[token].val]
    ELSE CacheMiss

InvalidateCachedSession(store, token) == RedisDel(store, token)

\* ------------------------------------------------------------------------
\* Requests and responses
\* ------------------------------------------------------------------------
\* the last request served and its response, with what the handler observed
NoReq == [op |-> "init", email |-> "", tok |-> NoToken,
          status |-> 0, valid |-> FALSE, user_id |-> "", r_email |-> "",
          access |-> NoToken, refresh |-> NoToken,
          issUser |-> "", issEmail |-> "", justIssued |-> FALSE,
          wasBlacklisted |-> FALSE, parseOK |-> FALSE, handler |-> FALSE,
          blOK |-> FALSE, delOK |-> FALSE, repeat200 |-> FALSE,
          bearer |-> FALSE, hadSession |-> FALSE, recentFailed |-> 0,
          countErr |-> FALSE, createErr |-> FALSE, cacheErr |-> FALSE,
          cacheWrote |-> FALSE, readErr |-> FALSE, again |-> FALSE,
          invOK |-> FALSE]

\* token strings a client can send: the ones it was given, tokens it made
\* itself without the secret (claims of its choice, a signature that does
\* not verify or the algorithm header "none"), and the empty string
Forged == SignedString(UserID("a"), "a", "access", 0, MaxTime + 1)

Presentable == issued \cup {Tamper(Forged), AlgNone(Forged), NoToken}

\* Authorization header: absent, another scheme, or Bearer <token> with the
\* scheme in either case
Schemes == {"", "Basic", "Bearer", "bearer"}

\* strings.EqualFold on the scheme names of Schemes
EqualFold(s, t) == \/ s = t
                   \/ {s, t} = {"Bearer", "bearer"}

SessionRow(user_id, token, at) ==
    [user_id |-> user_id, token |-> token,
     expires_at |-> at + JWTExpiry, created_at |-> at]

AttemptRow(log, email, success, at) ==
    [id |-> Len(log) + 1, email |-> email, success |-> success,
     ip_address |-> "ip", created_at |-> at]

\* rows of the attempt log that are failures of `email` younger than `span`
FailuresWithin(log, email, span, at) ==
    Cardinality({i \in DOMAIN log : /\ log[i].email = email
                                    /\ ~log[i].success
                                    /\ at - log[i].created_at < span})

\* ------------------------------------------------------------------------
\* Decisions of the token handlers.  bl is the blacklist and c the session
\* cache the handler's repository holds; okRead is the outcome of the
\* blacklist read.
\* ------------------------------------------------------------------------
\* variant: a validation that also requires a cached session for the token
ValidateTokenValidCached(bl, c, tokenStr, okRead, at) ==
    /\ tokenStr # NoToken
    /\ ~(okRead /\ IsTokenBlacklisted(bl, tokenStr, at))
    /\ GetCachedSession(c, tokenStr, at) # CacheMiss
    /\ ParseOK(tokenStr, at)

\* ValidateToken: the `valid` field of the response
ValidateTokenValid(bl, c, tokenStr, okRead, at) ==
    /\ tokenStr # NoToken
    /\ ~(okRead /\ IsTokenBlacklisted(bl, tokenStr, at))
    /\ ParseOK(tokenStr, at)

\* variant: RefreshToken without the check of the type claim
RefreshTokenStatusAnyType(bl, c, tokenStr, okRead, at) ==
    CASE tokenStr = NoToken -> 400
      [] tokenStr # NoToken /\ ~okRead -> 500
      [] tokenStr # NoToken /\ okRead /\ IsTokenBlacklisted(bl, tokenStr, at) -> 401
      [] tokenStr # NoToken /\ okRead /\ ~IsTokenBlacklisted(bl, tokenStr, at)
            /\ ~ParseOK(tokenStr, at) -> 401
      [] OTHER -> 200

\* RefreshToken: the status after the blacklist check, the signature/expiry
\* check and the type check, in that order (200: go on to revoke and issue)
RefreshTokenStatus(bl, c, tokenStr, okRead, at) ==
    CASE tokenStr = NoToken -> 400
      [] tokenStr # NoToken /\ ~okRead -> 500
      [] tokenStr # NoToken /\ okRead /\ IsTokenBlacklisted(bl, tokenStr, at) -> 401
      [] tokenStr # NoToken /\ okRead /\ ~IsTokenBlacklisted(bl, tokenStr, at)
            /\ ~ParseOK(tokenStr, at) -> 401
      [] tokenStr # NoToken /\ okRead /\ ~IsTokenBlacklisted(bl, tokenStr, at)
            /\ ParseOK(tokenStr, at) /\ tokenStr.typ # "refresh" -> 401
      [] OTHER -> 200

\* ------------------------------------------------------------------------
\* POST /login.  `authenticated` is the answer of the credential check; the
\* ok* inputs are the outcomes of the four store calls.
\* ------------------------------------------------------------------------
Login(email, password, authenticated, okCount, okRecord, okCreate, okCache, cap) ==
    LET bad == email = "" \/ password = ""
        failedCount == IF okCount
                       THEN GetRecentFailedAttempts(attempts, email, now - LockoutWindow)
                       ELSE 0
        locked == failedCount >= LockoutThreshold
        userID == UserID(email)
        attempt == AttemptRow(attempts, email, authenticated, now)
        tokenPair == issueTokens(userID, email, now)
        session == SessionRow(userID, tokenPair.access, now)
        createErr == ~okCreate \/ UniqueViolation(sessions, session)
        status == CASE bad -> 400
                    [] ~bad /\ locked -> 429
                    [] ~bad /\ ~locked /\ ~authenticated -> 401
                    [] ~bad /\ ~locked /\ authenticated /\ createErr -> 500
                    [] OTHER -> 200
    IN  /\ nreq < cap
        /\ nreq' = nreq + 1
        /\ attempts' = IF ~bad /\ ~locked /\ okRecord
                       THEN RecordLoginAttempt(attempts, attempt)
                       ELSE attempts
        /\ sessions' = IF status = 200 THEN CreateSession(sessions, session) ELSE sessions
        /\ cache' = IF status = 200 /\ okCache
                    THEN CacheSession(cache, session.token, session, JWTExpiry, now)
                    ELSE cache
        /\ issued' = IF status = 200
                     THEN issued \cup {tokenPair.access, tokenPair.refresh}
                     ELSE issued
        /\ created' = IF status = 200 THEN created \cup {session} ELSE created
        /\ returned' = IF status = 200 THEN returned \cup {tokenPair.access} ELSE returned
        /\ last' = [NoReq EXCEPT !.op = "login", !.email = email, !.status = status,
                       !.countErr = ~bad /\ ~okCount,
                       !.createErr = ~bad /\ ~locked /\ authenticated /\ createErr,
                       !.cacheErr = status = 200 /\ ~okCache,
                       !.cacheWrote = status = 200 /\ okCache,
                       !.again = status = 200 /\ tokenPair.access \in returned,
                       !.recentFailed = FailuresWithin(attempts, email, LockoutWindow, now),
                       !.access = IF status = 200 THEN tokenPair.access ELSE NoToken,
                       !.refresh = IF status = 200 THEN tokenPair.refresh ELSE NoToken,
                       !.issUser = IF status = 200 THEN userID ELSE "",
                       !.issEmail = IF status = 200 THEN email ELSE ""]
        /\ UNCHANGED <<now, blacklist, blWrites, loggedOut, terminal>>
        /\ UNCHANGED rlVars
        /\ UNCHANGED rfVars

\* ------------------------------------------------------------------------
\* JWTAuth middleware: TRUE iff the request is passed on to the handler
\* ------------------------------------------------------------------------
\* variant: a middleware that also looks the token up in the blacklist
JWTAuthRevocation(scheme, tokenStr, at) ==
    /\ EqualFold(scheme, "bearer")
    /\ ParseOK(tokenStr, at)
    /\ ~IsTokenBlacklisted(blacklist, tokenStr, at)

JWTAuth(scheme, tokenStr, at) ==
    /\ scheme # ""
    /\ EqualFold(scheme, "bearer")
    /\ ParseOK(tokenStr, at)

\* claims put in the request context
GetClaims(tokenStr) == [user_id |-> tokenStr.user_id, email |-> tokenStr.email]

\* ------------------------------------------------------------------------
\* POST /logout behind JWTAuth
\* ------------------------------------------------------------------------
Logout(scheme, tokenStr, okBlacklist, okDelete, okInvalidate, cap) ==
    LET pass == JWTAuth(scheme, tokenStr, now)
        wrote == pass /\ okBlacklist
        deleted == pass /\ okDelete
    IN  /\ tokenStr \in Presentable
        /\ nreq < cap
        /\ nreq' = nreq + 1
        /\ blacklist' = IF wrote
                        THEN BlacklistToken(blacklist, tokenStr, JWTExpiry, now)
                        ELSE blacklist
        /\ sessions' = IF deleted THEN DeleteSession(sessions, tokenStr) ELSE sessions
        /\ cache' = IF pass /\ okInvalidate
                    THEN InvalidateCachedSession(cache, tokenStr)
                    ELSE cache
        /\ created' = IF deleted THEN {r \in created : r.token # tokenStr} ELSE created
        /\ blWrites' = IF wrote
                       THEN blWrites \cup {[tok |-> tokenStr, until |-> now + JWTExpiry]}
                       ELSE blWrites
        /\ loggedOut' = IF pass THEN loggedOut \cup {tokenStr} ELSE loggedOut
        /\ last' = [NoReq EXCEPT !.op = "logout", !.tok = tokenStr,
                       !.status = IF pass THEN 200 ELSE 401,
                       !.handler = pass,
                       !.user_id = IF pass THEN GetClaims(tokenStr).user_id ELSE "",
                       !.r_email = IF pass THEN GetClaims(tokenStr).email ELSE "",
                       !.wasBlacklisted = IsTokenBlacklisted(blacklist, tokenStr, now),
                       !.parseOK = ParseOK(tokenStr, now),
                       !.blOK = wrote, !.delOK = deleted,
                       !.invOK = pass /\ okInvalidate,
                       !.bearer = EqualFold(scheme, "bearer"),
                       !.hadSession = \E r \in sessions : r.token = tokenStr]
        /\ UNCHANGED <<now, attempts, issued, terminal, returned>>
        /\ UNCHANGED rlVars
        /\ UNCHANGED rfVars

\* ------------------------------------------------------------------------
\* POST /refresh
\* ------------------------------------------------------------------------
RefreshToken(tokenStr, okRead, okWrite, cap) ==
    LET bad == tokenStr = NoToken
        blacklisted == IsTokenBlacklisted(blacklist, tokenStr, now)
        parsed == ParseOK(tokenStr, now)
        userID == tokenStr.user_id
        email == tokenStr.email
        status == RefreshTokenStatus(blacklist, cache, tokenStr, okRead, now)
        wrote == status = 200 /\ okWrite
        newPair == issueTokens(userID, email, now)
    IN  /\ tokenStr \in Presentable
        /\ nreq < cap
        /\ nreq' = nreq + 1
        /\ blacklist' = IF wrote
                        THEN BlacklistToken(blacklist, tokenStr, RefreshExpiry, now)
                        ELSE blacklist
        /\ blWrites' = IF wrote
                       THEN blWrites \cup {[tok |-> tokenStr, until |-> now + RefreshExpiry]}
                       ELSE blWrites
        /\ issued' = IF status = 200
                     THEN issued \cup {newPair.access, newPair.refresh}
                     ELSE issued
        /\ last' = [NoReq EXCEPT !.op = "refresh", !.tok = tokenStr, !.status = status,
                       !.access = IF status = 200 THEN newPair.access ELSE NoToken,
                       !.refresh = IF status = 200 THEN newPair.refresh ELSE NoToken,
                       !.issUser = IF status = 200 THEN userID ELSE "",
                       !.issEmail = IF status = 200 THEN email ELSE "",
                       !.wasBlacklisted = blacklisted,
                       !.parseOK = parsed,
                       !.blOK = wrote,
                       !.readErr = ~bad /\ ~okRead,
                       !.repeat200 = /\ last.op = "refresh"
                                     /\ last.status = 200
                                     /\ last.tok = tokenStr]
        /\ UNCHANGED <<now, sessions, attempts, cache, created, loggedOut, terminal, returned>>
        /\ UNCHANGED rlVars
        /\ UNCHANGED rfVars

\* ------------------------------------------------------------------------
\* POST /validate
\* ------------------------------------------------------------------------
ValidateToken(tokenStr, okRead, cap) ==
    LET bad == tokenStr = NoToken
        blacklisted == okRead /\ IsTokenBlacklisted(blacklist, tokenStr, now)
        parsed == ParseOK(tokenStr, now)
        isValid == ValidateTokenValid(blacklist, cache, tokenStr, okRead, now)
        expired == tokenStr.alg = "HS256" /\ tokenStr.sig = "ok" /\ ~(now < tokenStr.exp)
        follows == /\ last.op \in {"login", "refresh"}
                   /\ last.status = 200
                   /\ last.access = tokenStr
    IN  /\ tokenStr \in Presentable
        /\ nreq < cap
        /\ nreq' = nreq + 1
        /\ terminal' = IF ~bad /\ ~isValid /\ (blacklisted \/ expired)
                       THEN terminal \cup {tokenStr}
                       ELSE terminal
        /\ last' = [NoReq EXCEPT !.op = "validate", !.tok = tokenStr,
                       !.status = IF bad THEN 400 ELSE 200,
                       !.valid = isValid,
                       !.user_id = IF isValid THEN tokenStr.user_id ELSE "",
                       !.r_email = IF isValid THEN tokenStr.email ELSE "",
                       !.justIssued = follows,
                       !.issUser = IF follows THEN last.issUser ELSE "",
                       !.issEmail = IF follows THEN last.issEmail ELSE "",
                       !.wasBlacklisted = IsTokenBlacklisted(blacklist, tokenStr, now),
                       !.parseOK = parsed,
                       !.readErr = ~bad /\ ~okRead]
        /\ UNCHANGED <<now, sessions, attempts, blacklist, cache, issued, created,
                       blWrites, loggedOut, returned>>
        /\ UNCHANGED rlVars
        /\ UNCHANGED rfVars

\* ------------------------------------------------------------------------
\* transaction-service: the Auth middleware asks the auth-service
\* ------------------------------------------------------------------------
\* AUTH_SERVICE_URL: the default, or the base of the auth routes
AuthServiceURLs == {"http://localhost:8081", "http://localhost:8081/api/v1/auth"}

\* path of the request built by validateToken: authServiceURL + "/validate"
ValidatePath(authServiceURL) ==
    IF authServiceURL = "http://localhost:8081/api/v1/auth"
    THEN "/api/v1/auth/validate"
    ELSE "/validate"

HTTPError(code) == [status |-> code, valid |-> FALSE, user_id |-> ""]

\* the auth-service answering a request: the mux finds the route, the rate
\* limiter admits it, ValidateToken checks the method and decodes the body
ServeValidate(method, path, bodyToken, okRead, at) ==
    CASE path # "/api/v1/auth/validate" -> HTTPError(404)
      [] path = "/api/v1/auth/validate" /\ method # "POST" -> HTTPError(405)
      [] path = "/api/v1/auth/validate" /\ method = "POST" /\ bodyToken = NoToken
            -> HTTPError(400)
      [] OTHER ->
            [status |-> 200,
             valid |-> ValidateTokenValid(blacklist, cache, bodyToken, okRead, at),
             user_id |-> IF ValidateTokenValid(blacklist, cache, bodyToken, okRead, at)
                         THEN bodyToken.user_id ELSE ""]

\* GET authServiceURL/validate with the token in the Authorization header
\* and no body
validateToken(authServiceURL, token, at) ==
    LET resp == ServeValidate("GET", ValidatePath(authServiceURL), NoToken, TRUE, at)
    IN  CASE resp.status # 200 -> [err |-> "invalid token", userID |-> ""]
          [] resp.status = 200 /\ ~resp.valid -> [err |-> "token not valid", userID |-> ""]
          [] OTHER -> [err |-> "", userID |-> resp.user_id]

\* a request to a protected transaction-service route
Auth(authServiceURL, scheme, token, cap) ==
    LET res == validateToken(authServiceURL, token, now)
        pass == scheme # "" /\ scheme = "Bearer" /\ res.err = ""
    IN  /\ token \in Presentable
        /\ nreq < cap
        /\ nreq' = nreq + 1
        /\ last' = [NoReq EXCEPT !.op = "transactions", !.tok = token,
                       !.status = IF pass THEN 200 ELSE 401,
                       !.handler = pass,
                       !.user_id = IF pass THEN res.userID ELSE "",
                       !.bearer = (scheme = "Bearer")]
        /\ UNCHANGED <<now, sessions, attempts, blacklist, cache, issued, created,
                       blWrites, loggedOut, terminal, returned>>
        /\ UNCHANGED rlVars
        /\ UNCHANGED rfVars

\* ------------------------------------------------------------------------
\* RefreshToken served concurrently: the handler of process p reads the
\* blacklist and checks the token in one step, and writes the blacklist
\* entry and issues the pair in a later one
\* ------------------------------------------------------------------------
RefreshCheck(p, tokenStr, cap) ==
    LET status == RefreshTokenStatus(blacklist, cache, tokenStr, TRUE, now)
    IN  /\ rpc[p] = "idle"
        /\ tokenStr \in Presentable
        /\ nreq < cap
        /\ nreq' = nreq + 1
        /\ rpc' = [rpc EXCEPT ![p] = IF status = 200 THEN "write" ELSE "idle"]
        /\ rtok' = [rtok EXCEPT ![p] = IF status = 200 THEN tokenStr ELSE NoToken]
        /\ last' = IF status = 200 THEN last
                   ELSE [NoReq EXCEPT !.op = "refresh", !.tok = tokenStr,
                            !.status = status,
                            !.wasBlacklisted = IsTokenBlacklisted(blacklist, tokenStr, now),
                            !.parseOK = ParseOK(tokenStr, now)]
        /\ UNCHANGED <<now, sessions, attempts, blacklist, cache, issued, created,
                       blWrites, loggedOut, terminal, returned, minted, remail>>
        /\ UNCHANGED rlVars

RefreshWrite(p) ==
    LET tokenStr == rtok[p]
        newPair == issueTokens(tokenStr.user_id, tokenStr.email, now)
    IN  /\ rpc[p] = "write"
        /\ blacklist' = BlacklistToken(blacklist, tokenStr, RefreshExpiry, now)
        /\ blWrites' = blWrites \cup {[tok |-> tokenStr, until |-> now + RefreshExpiry]}
        /\ issued' = issued \cup {newPair.access, newPair.refresh}
        /\ minted' = Append(minted, tokenStr)
        /\ rpc' = [rpc EXCEPT ![p] = "idle"]
        /\ rtok' = [rtok EXCEPT ![p] = NoToken]
        /\ last' = [NoReq EXCEPT !.op = "refresh", !.tok = tokenStr, !.status = 200,
                       !.access = newPair.access, !.refresh = newPair.refresh,
                       !.issUser = tokenStr.user_id, !.issEmail = tokenStr.email,
                       !.parseOK = TRUE, !.blOK = TRUE]
        /\ UNCHANGED <<now, nreq, sessions, attempts, cache, created, loggedOut,
                       terminal, returned, remail>>
        /\ UNCHANGED rlVars

\* ------------------------------------------------------------------------
\* Login served concurrently, with an identity provider that may answer
\* ok=false: the handler of process p counts the recent failures in one
\* step and verifies, records and answers in a later one
\* ------------------------------------------------------------------------
LoginCheck(p, email, cap) ==
    LET failedCount == GetRecentFailedAttempts(attempts, email, now - LockoutWindow)
        locked == failedCount >= LockoutThreshold
    IN  /\ rpc[p] = "idle"
        /\ email # ""
        /\ nreq < cap
        /\ nreq' = nreq + 1
        /\ rpc' = [rpc EXCEPT ![p] = IF locked THEN "idle" ELSE "record"]
        /\ remail' = [remail EXCEPT ![p] = IF locked THEN "" ELSE email]
        /\ last' = IF locked
                   THEN [NoReq EXCEPT !.op = "login", !.email = email, !.status = 429,
                            !.recentFailed =
                                FailuresWithin(attempts, email, LockoutWindow, now)]
                   ELSE last
        /\ UNCHANGED <<now, sessions, attempts, blacklist, cache, issued, created,
                       blWrites, loggedOut, terminal, returned, rtok, minted>>
        /\ UNCHANGED rlVars

LoginRecord(p, authenticated) ==
    LET email == remail[p]
        userID == UserID(email)
        attempt == AttemptRow(attempts, email, authenticated, now)
        tokenPair == issueTokens(userID, email, now)
        session == SessionRow(userID, tokenPair.access, now)
        createErr == UniqueViolation(sessions, session)
        status == CASE ~authenticated -> 401
                    [] authenticated /\ createErr -> 500
                    [] OTHER -> 200
    IN  /\ rpc[p] = "record"
        /\ rpc' = [rpc EXCEPT ![p] = "idle"]
        /\ remail' = [remail EXCEPT ![p] = ""]
        /\ attempts' = RecordLoginAttempt(attempts, attempt)
        /\ sessions' = IF status = 200 THEN CreateSession(sessions, session) ELSE sessions
        /\ cache' = IF status = 200
                    THEN CacheSession(cache, session.token, session, JWTExpiry, now)
                    ELSE cache
        /\ issued' = IF status = 200
                     THEN issued \cup {tokenPair.access, tokenPair.refresh}
                     ELSE issued
        /\ created' = IF status = 200 THEN created \cup {session} ELSE created
        /\ returned' = IF status = 200 THEN returned \cup {tokenPair.access} ELSE returned
        /\ last' = [NoReq EXCEPT !.op = "login", !.email = email, !.status = status,
                       !.createErr = authenticated /\ createErr,
                       !.cacheWrote = status = 200,
                       !.again = status = 200 /\ tokenPair.access \in returned,
                       !.access = IF status = 200 THEN tokenPair.access ELSE NoToken,
                       !.refresh = IF status = 200 THEN tokenPair.refresh ELSE NoToken,
                       !.issUser = IF status = 200 THEN userID ELSE "",
                       !.issEmail = IF status = 200 THEN email ELSE ""]
        /\ UNCHANGED <<now, nreq, blacklist, blWrites, loggedOut, terminal, rtok, minted>>
        /\ UNCHANGED rlVars

\* ------------------------------------------------------------------------
\* Passage of time: Redis drops the keys whose expiry has passed
\* ------------------------------------------------------------------------
Tick ==
    /\ now < MaxTime
    /\ now' = now + 1
    /\ blacklist' = RedisExpire(blacklist, now + 1)
    /\ cache' = RedisExpire(cache, now + 1)
    /\ blWrites' = {w \in blWrites : now + 1 < w.until}
    /\ UNCHANGED <<nreq, sessions, attempts, issued, last, created, loggedOut, terminal,
                   returned>>
    /\ UNCHANGED rlVars
    /\ UNCHANGED rfVars

\* ------------------------------------------------------------------------
\* RateLimiter.Middleware: one process per request in flight.  rl.mu is 0
\* when free, else the process holding it.
\* ------------------------------------------------------------------------
NoRL == [op |-> "init", key |-> 0, at |-> 0, admitted |-> FALSE, prior |-> 0]

\* admitted timestamps of a key inside the window ending at `at`
InWindow(log, at) == Cardinality({i \in DOMAIN log : log[i] > at - window /\ log[i] <= at})

RLArrive(p, k, cap) ==
    /\ pc[p] = "idle"
    /\ nreq < cap
    /\ nreq' = nreq + 1
    /\ ip' = [ip EXCEPT ![p] = k]
    /\ pc' = [pc EXCEPT ![p] = "lock"]
    /\ UNCHANGED <<requests, mu, rnow, valid, admitted, rejected, lastRL, now>>
    /\ UNCHANGED <<sessions, attempts, blacklist, cache, issued, last, created,
                   blWrites, loggedOut, terminal, returned>>
    /\ UNCHANGED rfVars

\* variant: Lock() that does not wait for the holder
RLLockNoMutex(p) ==
    /\ pc[p] = "lock"
    /\ mu' = p
    /\ rnow' = [rnow EXCEPT ![p] = now]
    /\ pc' = [pc EXCEPT ![p] = "prune"]
    /\ UNCHANGED <<requests, ip, valid, admitted, rejected, lastRL, now>>
    /\ UNCHANGED authVars
    /\ UNCHANGED rfVars

\* rl.mu.Lock(); now := time.Now()
RLLock(p) ==
    /\ pc[p] = "lock"
    /\ mu = 0
    /\ mu' = p
    /\ rnow' = [rnow EXCEPT ![p] = now]
    /\ pc' = [pc EXCEPT ![p] = "prune"]
    /\ UNCHANGED <<requests, ip, valid, admitted, rejected, lastRL, now>>
    /\ UNCHANGED authVars
    /\ UNCHANGED rfVars

\* variant: no entry is ever removed
RLPruneKeepAll(p) ==
    /\ pc[p] = "prune"
    /\ valid' = [valid EXCEPT ![p] = requests[ip[p]]]
    /\ pc' = [pc EXCEPT ![p] = "check"]
    /\ UNCHANGED <<requests, mu, ip, rnow, admitted, rejected, lastRL, now>>
    /\ UNCHANGED authVars
    /\ UNCHANGED rfVars

\* remove expired entries: keep t.After(windowStart)
RLPrune(p) ==
    LET windowStart == rnow[p] - window
        kept == SelectSeq(requests[ip[p]], LAMBDA t : t > windowStart)
    IN  /\ pc[p] = "prune"
        /\ valid' = [valid EXCEPT ![p] = kept]
        /\ requests' = [requests EXCEPT ![ip[p]] = kept]
        /\ pc' = [pc EXCEPT ![p] = "check"]
        /\ UNCHANGED <<mu, ip, rnow, admitted, rejected, lastRL, now>>
        /\ UNCHANGED authVars
        /\ UNCHANGED rfVars

\* variant: the timestamp is recorded before the limit is checked
RLCheckAppendRejected(p) ==
    LET full == Len(valid[p]) >= limit
    IN  /\ pc[p] = "check"
        /\ requests' = [requests EXCEPT ![ip[p]] = Append(requests[ip[p]], rnow[p])]
        /\ mu' = IF mu = p THEN 0 ELSE mu
        /\ pc' = [pc EXCEPT ![p] = "idle"]
        /\ valid' = [valid EXCEPT ![p] = <<>>]
        /\ admitted' = IF full THEN admitted
                       ELSE [admitted EXCEPT ![ip[p]] = Append(admitted[ip[p]], rnow[p])]
        /\ rejected' = IF full THEN rejected \cup {ip[p]} ELSE rejected
        /\ lastRL' = [op |-> "req", key |-> ip[p], at |-> rnow[p], admitted |-> ~full,
                      prior |-> InWindow(admitted[ip[p]], rnow[p])]
        /\ ip' = [ip EXCEPT ![p] = 1]
        /\ rnow' = [rnow EXCEPT ![p] = 0]
        /\ UNCHANGED now
        /\ UNCHANGED authVars
        /\ UNCHANGED rfVars

\* len(valid) >= limit: unlock and 429; else append now, unlock, serve
RLCheck(p) ==
    LET full == Len(valid[p]) >= limit
    IN  /\ pc[p] = "check"
        /\ requests' = IF full THEN requests
                       ELSE [requests EXCEPT ![ip[p]] = Append(requests[ip[p]], rnow[p])]
        /\ mu' = IF mu = p THEN 0 ELSE mu
        /\ pc' = [pc EXCEPT ![p] = "idle"]
        /\ valid' = [valid EXCEPT ![p] = <<>>]
        /\ admitted' = IF full THEN admitted
                       ELSE [admitted EXCEPT ![ip[p]] = Append(admitted[ip[p]], rnow[p])]
        /\ rejected' = IF full THEN rejected \cup {ip[p]} ELSE rejected
        /\ lastRL' = [op |-> "req", key |-> ip[p], at |-> rnow[p], admitted |-> ~full,
                      prior |-> InWindow(admitted[ip[p]], rnow[p])]
        /\ ip' = [ip EXCEPT ![p] = 1]
        /\ rnow' = [rnow EXCEPT ![p] = 0]
        /\ UNCHANGED now
        /\ UNCHANGED authVars
        /\ UNCHANGED rfVars

\* time passes while rate-limited requests are in flight
RLTick ==
    /\ now < MaxTimeRL
    /\ now' = now + 1
    /\ UNCHANGED rlVars
    /\ UNCHANGED authVars
    /\ UNCHANGED rfVars

\* ------------------------------------------------------------------------
\* Specifications
\* ------------------------------------------------------------------------
Init ==
    /\ now = 0
    /\ nreq = 0
    /\ sessions = {}
    /\ attempts = <<>>
    /\ blacklist = EmptyStore
    /\ cache = EmptyStore
    /\ issued = {}
    /\ last = NoReq
    /\ created = {}
    /\ blWrites = {}
    /\ loggedOut = {}
    /\ terminal = {}
    /\ returned = {}
    /\ requests = [k \in Keys |-> <<>>]
    /\ mu = 0
    /\ pc = [p \in Procs |-> "idle"]
    /\ ip = [p \in Procs |-> 1]
    /\ rnow = [p \in Procs |-> 0]
    /\ valid = [p \in Procs |-> <<>>]
    /\ admitted = [k \in Keys |-> <<>>]
    /\ rejected = {}
    /\ lastRL = NoRL
    /\ rpc = [p \in Procs |-> "idle"]
    /\ rtok = [p \in Procs |-> NoToken]
    /\ remail = [p \in Procs |-> ""]
    /\ minted = <<>>

\* Requests.  Outcomes is the set of outcomes of a store call (TRUE: the
\* call returns without error); a call that is not reached has no outcome.
\* The credential check of the repository answers true for every request.
\* The scheme is compared case-insensitively, so failing store calls are
\* drawn for one spelling of it only.
LoginReq(Outcomes, cap) ==
    /\ nreq < cap
    /\ \E email \in Emails \cup {""}, password \in {"", "pw"},
          okCount \in Outcomes, okRecord \in Outcomes, okCreate \in Outcomes,
          okCache \in Outcomes :
           /\ (email = "" \/ password = "") => (okCount /\ okRecord /\ okCreate /\ okCache)
           /\ ~okCreate => okCache
           /\ Login(email, password, TRUE, okCount, okRecord, okCreate, okCache, cap)

LogoutReq(Outcomes, cap) ==
    /\ nreq < cap
    /\ \E scheme \in Schemes, tokenStr \in Presentable :
           /\ ~EqualFold(scheme, "bearer") => tokenStr = NoToken
           /\ \E okBlacklist \in Outcomes, okDelete \in Outcomes,
                 okInvalidate \in Outcomes :
                  /\ (~JWTAuth(scheme, tokenStr, now) \/ scheme # "Bearer")
                        => (okBlacklist /\ okDelete /\ okInvalidate)
                  /\ Logout(scheme, tokenStr, okBlacklist, okDelete, okInvalidate, cap)

RefreshReq(Outcomes, cap) ==
    /\ nreq < cap
    /\ \E tokenStr \in Presentable, okRead \in Outcomes, okWrite \in Outcomes :
           /\ tokenStr = NoToken => okRead
           /\ ~(okRead /\ ParseOK(tokenStr, now) /\ tokenStr.typ = "refresh") => okWrite
           /\ RefreshToken(tokenStr, okRead, okWrite, cap)

ValidateReq(Outcomes, cap) ==
    /\ nreq < cap
    /\ \E tokenStr \in Presentable, okRead \in Outcomes :
           /\ tokenStr = NoToken => okRead
           /\ ValidateToken(tokenStr, okRead, cap)

\* the service with stores that may fail
Next == \/ LoginReq(BOOLEAN, MaxReqs)
        \/ LogoutReq(BOOLEAN, MaxReqs)
        \/ RefreshReq(BOOLEAN, MaxReqs)
        \/ ValidateReq(BOOLEAN, MaxReqs)
        \/ Tick

Spec == Init /\ [][Next]_vars

\* the service while every store call succeeds
NextOK == \/ LoginReq({TRUE}, MaxReqsOK)
          \/ LogoutReq({TRUE}, MaxReqsOK)
          \/ RefreshReq({TRUE}, MaxReqsOK)
          \/ ValidateReq({TRUE}, MaxReqsOK)
          \/ Tick

SpecOK == Init /\ [][NextOK]_vars

\* Login with an identity provider that may answer ok=false
LoginIdP ==
    \E email \in Emails, authenticated \in BOOLEAN, okCount \in BOOLEAN :
        Login(email, "pw", authenticated, okCount, TRUE, TRUE, TRUE, MaxReqsIdP)

NextIdP == LoginIdP \/ Tick

SpecIdP == Init /\ [][NextIdP]_vars

\* the transaction-service in front of the auth-service
TxAuthReq ==
    \E authServiceURL \in AuthServiceURLs, scheme \in Schemes, token \in Presentable :
        /\ scheme # "Bearer" => token = NoToken
        /\ Auth(authServiceURL, scheme, token, MaxReqsTx)

NextTx == \/ LoginReq({TRUE}, MaxReqsTx)
          \/ LogoutReq({TRUE}, MaxReqsTx)
          \/ TxAuthReq
          \/ Tick

SpecTx == Init /\ [][NextTx]_vars

\* RefreshToken requests in flight at the same time
RefreshCheckStep == \E p \in Procs, tokenStr \in Presentable : RefreshCheck(p, tokenStr, MaxReqsRF)
RefreshWriteStep == \E p \in Procs : RefreshWrite(p)

NextRF == \/ LoginReq({TRUE}, MaxReqsRF)
          \/ RefreshCheckStep
          \/ RefreshWriteStep
          \/ Tick

SpecRF == Init /\ [][NextRF]_vars

\* Login requests in flight at the same time
LoginCheckStep == \E p \in Procs, email \in Emails : LoginCheck(p, email, MaxReqsLC)
LoginRecordStep == \E p \in Procs, authenticated \in BOOLEAN : LoginRecord(p, authenticated)

NextLC == LoginCheckStep \/ LoginRecordStep \/ Tick

SpecLC == Init /\ [][NextLC]_vars

\* the rate limiter under concurrent requests
\* a client address that has sent a request
KeySeen(k) == \/ admitted[k] # <<>>
              \/ k \in rejected
              \/ \E q \in Procs : pc[q] # "idle" /\ ip[q] = k

\* Handler goroutines and client addresses are interchangeable: a request
\* is taken by the lowest idle process, and addresses are numbered in the
\* order of their first request.
RLArriveReq ==
    \E p \in Procs, k \in Keys :
        /\ \A q \in Procs : q < p => pc[q] # "idle"
        /\ IF k = 1 THEN TRUE ELSE KeySeen(k - 1)
        /\ RLArrive(p, k, MaxReqsRL)
RLLockStep == \E p \in Procs : RLLock(p)
RLPruneStep == \E p \in Procs : RLPrune(p)
RLCheckStep == \E p \in Procs : RLCheck(p)

NextRL == RLArriveReq \/ RLLockStep \/ RLPruneStep \/ RLCheckStep \/ RLTick

SpecRL == Init /\ [][NextRL]_vars

\* ------------------------------------------------------------------------
\* Properties
\* ------------------------------------------------------------------------

\* C1: a ValidateToken call that directly follows the Login or RefreshToken
\* that returned the access token, made before the token's exp, answers
\* valid=true with the user_id and email that were passed to issueTokens.
C1_ValidIfJustIssued ==
    (last.op = "validate" /\ last.justIssued /\ now < last.tok.exp)
        => /\ last.valid
           /\ last.user_id = last.issUser
           /\ last.r_email = last.issEmail

\* C2: after a successful BlacklistToken(token, ttl), IsTokenBlacklisted(token)
\* is true until ttl has elapsed, and every ValidateToken call for the token
\* in that window answers valid=false.
C2_BlacklistedUntilTTL ==
    /\ \A w \in blWrites :
           now < w.until => IsTokenBlacklisted(blacklist, w.tok, now)
    /\ (last.op = "validate"
           /\ \E w \in blWrites : w.tok = last.tok /\ now < w.until)
        => ~last.valid

\* C3: a RefreshToken call that directly follows a RefreshToken call which
\* answered 200 for the same refresh token is rejected and issues no tokens.
C3_SecondRefreshRejected ==
    last.repeat200 => /\ last.status # 200
                      /\ last.access = NoToken
                      /\ last.refresh = NoToken

\* C4: once Logout with access token T as Bearer has answered 200, every
\* ValidateToken call for T answers valid=false.
C4_LoggedOutNeverValid ==
    (last.op = "validate" /\ last.tok.typ = "access" /\ last.tok \in loggedOut)
        => ~last.valid

C6_AdmittedIffBelowLimit ==
    lastRL.op = "req" => (lastRL.admitted <=> lastRL.prior < limit)

C6_Witness ==
    /\ lastRL.op = "req"
    /\ lastRL.admitted
    /\ lastRL.prior < limit
    /\ Len(admitted[lastRL.key]) > limit
    /\ lastRL.key \in rejected

\* C7: under every interleaving, the requests admitted for one key with
\* timestamps inside any interval of length `window` number at most `limit`.
C7_AtMostLimitPerWindow ==
    \A k \in Keys : \A e \in 0..MaxTimeRL : InWindow(admitted[k], e) <= limit

C7_Witness ==
    \E p \in Procs, q \in Procs :
        /\ p # q
        /\ ip[p] = ip[q]
        /\ mu = q
        /\ pc[q] = "check"
        /\ Len(valid[q]) = limit - 1
        /\ pc[p] = "lock"

\* C8: a session created by CreateSession and not deleted is returned by
\* GetSessionByToken while now < expires_at and is not found from expires_at
\* on; after DeleteSession(token) the token is not found.
C8_SessionRoundTrip ==
    /\ \A s \in created :
           IF now < s.expires_at
           THEN GetSessionByToken(sessions, s.token, now) = s
           ELSE GetSessionByToken(sessions, s.token, now) = NotFound
    /\ (last.op = "logout" /\ last.delOK)
           => GetSessionByToken(sessions, last.tok, now) = NotFound

C8_Witness ==
    /\ last.op = "logout"
    /\ last.delOK
    /\ last.hadSession
    /\ GetSessionByToken(sessions, last.tok, now) = NotFound
    /\ \E s \in created : now >= s.expires_at

\* C9: JWTAuth passes a request on iff it carries a Bearer token that is
\* correctly signed and unexpired, whatever the blacklist holds; Logout then
\* answers 200, also for a token that is blacklisted.
C9_JWTAuthIgnoresBlacklist ==
    last.op = "logout"
        => /\ last.handler <=> (last.bearer /\ last.parseOK)
           /\ last.handler => last.status = 200

C9_Witness ==
    /\ last.op = "logout"
    /\ last.wasBlacklisted
    /\ last.tok \in loggedOut
    /\ last.status = 200

\* C10: once ValidateToken has answered valid=false for a token because it
\* was expired or blacklisted, no later ValidateToken call for the token
\* answers valid=true.
C10_ExpiredRevokedTerminal ==
    (last.op = "validate" /\ last.valid) => last.tok \notin terminal

\* C11: every blacklist entry written by Logout or RefreshToken lasts at
\* least until the exp of the token it revokes (TTL >= exp - now).
C11_TTLCoversValidity ==
    \A w \in blWrites : w.until >= w.tok.exp

\* C12: Login issues a token pair only when GetRecentFailedAttempts returned
\* without error and with a count below LockoutThreshold; when the count
\* query fails no token pair is issued and no session is created.
C12_LockoutFailClosed ==
    (last.op = "login" /\ last.status # 400)
        => /\ last.status = 200
                => (~last.countErr /\ last.recentFailed < LockoutThreshold)
           /\ last.countErr
                => (last.access = NoToken /\ last.refresh = NoToken)

\* C13: in Login a failed CreateSession gives 500 with no token pair and no
\* cache write; a failed CacheSession after a successful CreateSession still
\* gives 200 with the token pair; a 200 response implies that a session row
\* for the returned access token is in the sessions table.
C13_CreateFatalCacheNot ==
    last.op = "login"
        => /\ last.createErr
                => /\ last.status = 500
                   /\ last.access = NoToken
                   /\ last.refresh = NoToken
                   /\ ~last.cacheWrote
           /\ last.cacheErr
                => /\ last.status = 200
                   /\ last.access # NoToken
                   /\ last.refresh # NoToken
           /\ last.status = 200
                => \E r \in sessions : r.token = last.access

C13_Witness ==
    /\ last.op = "login"
    /\ last.status = 200
    /\ last.cacheErr
    /\ GetCachedSession(cache, last.access, now) = CacheMiss
    /\ GetSessionByToken(sessions, last.access, now).token = last.access

C15_RefreshOnlyForRefresh ==
    /\ (last.op = "validate" /\ last.tok.typ = "refresh") => ~last.valid
    /\ (last.op = "logout" /\ last.tok.typ = "refresh") => ~last.handler

\* C16: the sessions table holds at most one row per token value, and no
\* two Login calls that answer 200 return the same access token.
C16_TokensUnique ==
    /\ \A r1 \in sessions : \A r2 \in sessions : r1.token = r2.token => r1 = r2
    /\ last.op = "login" => ~last.again

\* C17: the transaction-service Auth middleware admits a request iff the
\* auth-service's ValidateToken answers valid=true for its Bearer token, and
\* then puts the token's user_id in the request context; a token that
\* ValidateToken answers valid=false for gets 401.
C17_TxAuthFollowsValidate ==
    (last.op = "transactions" /\ last.bearer)
        => /\ last.handler <=> ValidateTokenValid(blacklist, cache, last.tok, TRUE, now)
           /\ last.handler => last.user_id = last.tok.user_id
           /\ ~last.handler => last.status = 401

\* states of the session cache that differ from the present one
CacheVariants ==
    {EmptyStore}
        \cup {RedisDel(cache, k) : k \in DOMAIN cache}
        \cup {RedisSet(cache, t, "user-x", JWTExpiry, now) : t \in Presentable}

\* C18: ValidateToken, RefreshToken and JWTAuth give the same accept/reject
\* result in any two states that differ only in the session cache, and a
\* token that is unexpired, correctly signed and not blacklisted is answered
\* valid=true also when the cache has no entry for it.
C18_CacheNeverDecides ==
    /\ LET variants == CacheVariants
       IN  \A t \in Presentable : \A okRead \in BOOLEAN :
               LET v == ValidateTokenValid(blacklist, cache, t, okRead, now)
                   s == RefreshTokenStatus(blacklist, cache, t, okRead, now)
               IN  \A c \in variants :
                       /\ ValidateTokenValid(blacklist, c, t, okRead, now) = v
                       /\ RefreshTokenStatus(blacklist, c, t, okRead, now) = s
    /\ (last.op = "validate" /\ last.parseOK /\ ~last.wasBlacklisted) => last.valid
    /\ last.op = "logout" => (last.handler <=> (last.bearer /\ last.parseOK))

C18_Witness ==
    /\ last.op = "validate"
    /\ last.valid
    /\ last.tok.typ = "access"
    /\ GetCachedSession(cache, last.tok, now) = CacheMiss
    /\ \E c \in CacheVariants : GetCachedSession(c, last.tok, now) # CacheMiss

\* number of pairs minted for a token
Minted(tokenStr) == Cardinality({i \in DOMAIN minted : minted[i] = tokenStr})

\* C19: for every refresh token at most one RefreshToken request presenting
\* it returns a new token pair, also when requests run concurrently.
C19_OneMintPerRefreshToken ==
    \A t \in issued : Minted(t) <= 1

\* C20: RefreshToken answers 401 exactly for a token that is blacklisted,
\* badly signed, expired or not of type "refresh"; the blacklist check comes
\* first (a failing blacklist read gives 500 whatever the token); a request
\* that is not answered 200 writes no blacklist entry and issues no token.
C20_RefreshChecksThenActs ==
    [][(last'.op = "refresh" /\ nreq' # nreq)
        => /\ (last'.status = 401)
                <=> /\ last'.tok # NoToken
                    /\ ~last'.readErr
                    /\ \/ IsTokenBlacklisted(blacklist, last'.tok, now)
                       \/ ~ParseOK(last'.tok, now)
                       \/ last'.tok.typ # "refresh"
           /\ (last'.status = 500) <=> last'.readErr
           /\ last'.status # 200
                => /\ blacklist' = blacklist
                   /\ blWrites' = blWrites
                   /\ issued' = issued
                   /\ sessions' = sessions
                   /\ cache' = cache
                   /\ last'.access = NoToken
                   /\ last'.refresh = NoToken
           /\ last'.status = 200
                => issued' = issued \cup {last'.access, last'.refresh}]_vars

C20_Witness ==
    /\ last.op = "refresh"
    /\ last.status = 401
    /\ last.tok.typ = "access"
    /\ last.parseOK
    /\ ~last.wasBlacklisted

C22_StoredListBounded ==
    [][\A p \in Procs :
          (pc[p] = "check" /\ pc'[p] = "idle")
            => /\ \A k \in Keys : Len(requests'[k]) <= limit
               /\ \A i \in DOMAIN requests'[ip[p]] :
                      requests'[ip[p]][i] > rnow[p] - window
               /\ lastRL'.admitted
                    => requests'[ip[p]] = Append(requests[ip[p]], rnow[p])
               /\ ~lastRL'.admitted
                    => requests'[ip[p]] = requests[ip[p]]]_vars

C22_Witness ==
    /\ lastRL.op = "req"
    /\ ~lastRL.admitted
    /\ Len(requests[lastRL.key]) = limit
    /\ \E i \in DOMAIN admitted[lastRL.key] :
           admitted[lastRL.key][i] <= lastRL.at - window

\* C23: JWTAuth passes the request on iff the Authorization header is
\* Bearer <token> with an HMAC-signed token whose signature verifies and
\* whose exp has not passed; otherwise the answer is 401 and the handler
\* does nothing; the context claims are the token's user_id and email.
C23_HandlerIffValidBearer ==
    [][(last'.op = "logout" /\ nreq' # nreq)
        => /\ last'.handler
                <=> /\ last'.bearer
                    /\ last'.tok.alg = "HS256"
                    /\ last'.tok.sig = "ok"
                    /\ now < last'.tok.exp
           /\ ~last'.handler
                => /\ last'.status = 401
                   /\ ~last'.blOK /\ ~last'.delOK /\ ~last'.invOK
                   /\ last'.user_id = ""
                   /\ blacklist' = blacklist /\ sessions' = sessions /\ cache' = cache
           /\ last'.handler
                => /\ last'.user_id = last'.tok.user_id
                   /\ last'.r_email = last'.tok.email]_vars

C23_Witness ==
    /\ last.op = "logout"
    /\ last.handler
    /\ last.user_id = UserID("a")
    /\ last.r_email = "a"
    /\ last.tok \in issued

\* C24: a Logout with token T whose three store calls succeed leaves T
\* blacklisted, without a session row and without a cache entry, and leaves
\* the session rows, cache entries and blacklist entries of every other
\* token as they were.
C24_LogoutEffectAndFrame ==
    [][(last'.op = "logout" /\ nreq' # nreq
            /\ last'.blOK /\ last'.delOK /\ last'.invOK)
        => /\ IsTokenBlacklisted(blacklist', last'.tok, now)
           /\ GetSessionByToken(sessions', last'.tok, now) = NotFound
           /\ GetCachedSession(cache', last'.tok, now) = CacheMiss
           /\ {r \in sessions' : r.token # last'.tok}
                = {r \in sessions : r.token # last'.tok}
           /\ DOMAIN cache' \ {last'.tok} = DOMAIN cache \ {last'.tok}
           /\ \A t \in DOMAIN cache \ {last'.tok} : cache'[t] = cache[t]
           /\ DOMAIN blacklist' \ {last'.tok} = DOMAIN blacklist \ {last'.tok}
           /\ \A t \in DOMAIN blacklist \ {last'.tok} : blacklist'[t] = blacklist[t]
           /\ attempts' = attempts]_vars

C24_Witness ==
    /\ last.op = "logout"
    /\ last.blOK /\ last.delOK /\ last.invOK
    /\ last.hadSession
    /\ \E r \in sessions : r.token # last.tok /\ r.user_id = last.user_id

\* success=false rows of an email with created_at in the lockout window
\* that ends at e
FailedIn(email, e) ==
    Cardinality({i \in DOMAIN attempts : /\ attempts[i].email = email
                                         /\ ~attempts[i].success
                                         /\ attempts[i].created_at > e - LockoutWindow
                                         /\ attempts[i].created_at <= e})

C26_LiveSessionForEveryAccessToken ==
    \A t \in issued :
        (t.typ = "access" /\ now < t.exp /\ t \notin loggedOut)
            => GetSessionByToken(sessions, t, now).token = t

\* C27: the refresh token returned by a successful RefreshToken differs from
\* the presented token and is not blacklisted.
C27_ReturnedRefreshTokenIsFresh ==
    (last.op = "refresh" /\ last.status = 200)
        => /\ last.refresh # last.tok
           /\ ~IsTokenBlacklisted(blacklist, last.refresh, now)

\* C28: with every store call succeeding, a Login with non-empty email and
\* password that is not locked out is answered 200 with a token pair.
C28_LoginAlwaysSucceeds ==
    (last.op = "login" /\ last.status \notin {400, 429})
        => /\ last.status = 200
           /\ last.access # NoToken
           /\ last.refresh # NoToken

\* C29: Logout answers 200 only if the blacklist entry of the presented token
\* was written, and RefreshToken returns a token pair only if the blacklist
\* entry of the presented refresh token was written.
C29_RevocationWriteNotSwallowed ==
    /\ (last.op = "logout" /\ last.status = 200) => last.blOK
    /\ (last.op = "refresh" /\ last.status = 200) => last.blOK

\* C30: when the blacklist read fails, RefreshToken answers 500, writes no
\* blacklist entry and issues no tokens, and ValidateToken does not answer
\* valid=true.
C30_BlacklistReadFailClosed ==
    /\ (last.op = "refresh" /\ last.readErr)
          => /\ last.status = 500
             /\ ~last.blOK
             /\ last.access = NoToken
             /\ last.refresh = NoToken
    /\ (last.op = "validate" /\ last.readErr) => ~last.valid

====
